---- MODULE Spec2Model ----
(***************************************************************************)
(* Model of updater.py: the updater for GloriousEggroll's custom Proton    *)
(* builds.  Strings are sequences of one-character strings, so that        *)
(* str.strip, the "in" substring test, str.lower and the os.path functions *)
(* are modelled by what they do to the characters.                         *)
(***************************************************************************)
EXTENDS Integers, Sequences, FiniteSets, TLC

(***************************************************************************)
(* Bounds of the model.                                                    *)
(***************************************************************************)
MaxRuns == 2
ArchiveChunks == 2

(***************************************************************************)
(* String helpers: Python's str and os.path functions used by the code.    *)
(***************************************************************************)
StartsWith(s, p) ==
  /\ Len(p) <= Len(s)
  /\ SubSeq(s, 1, Len(p)) = p

\* Python: sub in s
Contains(s, sub) ==
  \E i \in 0..(Len(s) - Len(sub)) : SubSeq(s, i + 1, i + Len(sub)) = sub

UpperChars == <<"A", "B", "C", "D", "E", "F", "G", "H", "I", "J", "K", "L", "M",
                "N", "O", "P", "Q", "R", "S", "T", "U", "V", "W", "X", "Y", "Z">>
LowerChars == <<"a", "b", "c", "d", "e", "f", "g", "h", "i", "j", "k", "l", "m",
                "n", "o", "p", "q", "r", "s", "t", "u", "v", "w", "x", "y", "z">>

LowerChar(c) ==
  IF \E i \in 1..26 : UpperChars[i] = c
    THEN LowerChars[CHOOSE i \in 1..26 : UpperChars[i] = c]
    ELSE c

\* Python: s.lower()
Lower(s) == [i \in 1..Len(s) |-> LowerChar(s[i])]

\* Python: s.lstrip(chars), chars given as the set of its characters
RECURSIVE LStrip(_, _)
LStrip(s, chars) ==
  IF s # << >> /\ Head(s) \in chars THEN LStrip(Tail(s), chars) ELSE s

\* Python: s.rstrip(chars)
RECURSIVE RStrip(_, _)
RStrip(s, chars) ==
  IF s # << >> /\ s[Len(s)] \in chars
    THEN RStrip(SubSeq(s, 1, Len(s) - 1), chars)
    ELSE s

\* Python: s.strip(chars) removes leading and trailing characters of chars
Strip(s, chars) == RStrip(LStrip(s, chars), chars)

Range(s) == {s[i] : i \in 1..Len(s)}

Slash == "/"

\* Python: os.path.join(a, b) on POSIX
PathJoin(a, b) ==
  IF b # << >> /\ Head(b) = Slash THEN b
  ELSE IF a = << >> \/ a[Len(a)] = Slash THEN a \o b
  ELSE a \o <<Slash>> \o b

\* Python: path.split("/")
RECURSIVE SplitSlash(_)
SplitSlash(s) ==
  IF \A i \in 1..Len(s) : s[i] # Slash THEN <<s>>
  ELSE LET k == CHOOSE i \in 1..Len(s) :
                   /\ s[i] = Slash
                   /\ \A j \in 1..(i - 1) : s[j] # Slash
       IN <<SubSeq(s, 1, k - 1)>> \o SplitSlash(SubSeq(s, k + 1, Len(s)))

\* the loop of posixpath.normpath over the components
RECURSIVE NormComps(_, _, _)
NormComps(comps, acc, rooted) ==
  IF comps = << >> THEN acc
  ELSE LET c == Head(comps)
           r == Tail(comps)
       IN IF c = << >> \/ c = <<".">> THEN NormComps(r, acc, rooted)
          ELSE IF c # <<".", ".">> THEN NormComps(r, Append(acc, c), rooted)
          ELSE IF acc # << >> /\ acc[Len(acc)] # <<".", ".">>
                 THEN NormComps(r, SubSeq(acc, 1, Len(acc) - 1), rooted)
          ELSE IF acc = << >> /\ rooted THEN NormComps(r, acc, rooted)
          ELSE NormComps(r, Append(acc, c), rooted)

\* Python: "/".join(comps)
RECURSIVE JoinSlash(_)
JoinSlash(comps) ==
  IF comps = << >> THEN << >>
  ELSE IF Len(comps) = 1 THEN comps[1]
  ELSE comps[1] \o <<Slash>> \o JoinSlash(Tail(comps))

\* the number of leading slashes posixpath.normpath keeps: 0, 1 or 2
InitialSlashes(p) ==
  IF ~StartsWith(p, <<Slash>>) THEN 0
  ELSE IF StartsWith(p, <<Slash, Slash>>) /\ ~StartsWith(p, <<Slash, Slash, Slash>>)
    THEN 2
  ELSE 1

\* Python: os.path.normpath(p) on POSIX
NormPath(p) ==
  IF p = << >> THEN <<".">>
  ELSE LET n == InitialSlashes(p)
           body == JoinSlash(NormComps(SplitSlash(p), << >>, n > 0))
           res == [i \in 1..n |-> Slash] \o body
       IN IF res = << >> THEN <<".">> ELSE res

\* the working directory of the process
Cwd == <<Slash, "w">>

\* Python: os.path.abspath(p)
AbsPath(p) ==
  IF StartsWith(p, <<Slash>>) THEN NormPath(p) ELSE NormPath(PathJoin(Cwd, p))

\* Python: os.path.commonprefix([a, b]): the longest common leading string,
\* compared character by character
CommonPrefix(a, b) ==
  LET m == IF Len(a) < Len(b) THEN Len(a) ELSE Len(b)
      agree == {k \in 0..m : \A i \in 1..k : a[i] = b[i]}
      n == CHOOSE k \in agree : \A j \in agree : j <= k
  IN SubSeq(a, 1, n)

\* unpack_update.is_within_directory
is_within_directory(directory, target) ==
  LET abs_directory == AbsPath(directory)
      abs_target == AbsPath(target)
      prefix == CommonPrefix(abs_directory, abs_target)
  IN prefix = abs_directory

(***************************************************************************)
(* The names, feeds and archives the model draws its inputs from.          *)
(***************************************************************************)
Proton == <<"P", "r", "o", "t", "o", "n">>
N93 == Proton \o <<"-", "9", ".", "0", "-", "3">>
N920 == Proton \o <<"-", "9", ".", "0", "-", "2", "0">>
NBeta == Proton \o <<"-", "b", "e", "t", "a">>
Boxtron == <<"b", "o", "x", "t", "r", "o", "n">>

TarGzSuffix == <<".", "t", "a", "r", ".", "g", "z">>
ShaSuffix == <<".", "s", "h", "a", "5", "1", "2", "s", "u", "m">>

\* the marker get_latest looks for in an asset name, and the family marker
\* get_local_versions looks for in a directory entry
TarMarker == <<"t", "a", "r", ".", "g", "z">>
FamilyMarker == <<"p", "r", "o", "t", "o", "n">>

Asset(n, u) == [name |-> n, browser_download_url |-> u]

\* the "assets" list of the latest-release JSON; "" is a missing (None) url
Feeds ==
  { <<Asset(N93 \o ShaSuffix, "u_sha"), Asset(N93 \o TarGzSuffix, "u_93")>>,
    <<Asset(N93 \o TarGzSuffix, "u_93"), Asset(N93 \o ShaSuffix, "u_sha")>>,
    <<Asset(N920 \o TarGzSuffix, "u_920")>>,
    <<Asset(N93 \o TarGzSuffix, "u_93"), Asset(N920 \o TarGzSuffix, "u_920")>>,
    <<Asset(NBeta \o TarGzSuffix, "u_beta")>>,
    <<Asset(N93 \o ShaSuffix, "u_sha")>>,
    <<Asset(N93 \o TarGzSuffix, "")>>,
    << >> }

\* the installation directory (args.steamdir)
SteamDir == <<Slash, "h", Slash, "c">>

Member(n, d) == [name |-> n, isdir |-> d]
Tar(r, m) == [readable |-> r, members |-> m]

\* an archive with the single top-level directory n
GoodArchive(n) == Tar(TRUE, <<Member(n, TRUE), Member(n \o <<Slash, "f">>, FALSE)>>)

\* an archive with an entry that climbs out through parent-directory segments
ParentArchive ==
  Tar(TRUE, <<Member(N93, TRUE),
              Member(<<".", ".", Slash, ".", ".", Slash, "e">>, FALSE)>>)

\* an archive with an absolute entry
AbsoluteArchive == Tar(TRUE, <<Member(N93, TRUE), Member(<<Slash, "e">>, FALSE)>>)

\* an archive with an entry in a sibling directory whose name begins with
\* the name of the installation directory: /h/c/../cx/f
SiblingArchive ==
  Tar(TRUE, <<Member(N93, TRUE),
              Member(<<".", ".", Slash, "c", "x", Slash, "f">>, FALSE)>>)

\* a file that is not a tar container
CorruptArchive == Tar(FALSE, << >>)

\* what the server may send for a download url
Served(url) ==
  (CASE url = "u_93" -> {GoodArchive(N93)}
     [] url = "u_920" -> {GoodArchive(N920)}
     [] url = "u_beta" -> {GoodArchive(NBeta)}
     [] OTHER -> {})
  \cup {ParentArchive, AbsoluteArchive, SiblingArchive, CorruptArchive}

\* the answers typed at the confirmation prompt, with their str.lower()
Answers == {"y", "Y", "", "n", "yes"}
LowerAnswer(a) == IF a = "Y" THEN "y" ELSE a

Entry(n, k) == [name |-> n, kind |-> k]
Kinds == {"dir", "file"}

\* the orders os.listdir may return the entries of a directory in
Listings(S) ==
  {l \in [1..Cardinality(S) -> S] : \A i, j \in 1..Cardinality(S) : l[i] = l[j] => i = j}

(***************************************************************************)
(* The pure parts of the Updater class.                                    *)
(***************************************************************************)
\* class ProtonVersion
ProtonVersion(name, url) == [name |-> name, url |-> url]

\* class ProtonVersion has the two fields and no method besides __init__:
\* no __lt__, no __eq__, no parsing of the name; ordering two releases
\* (a < b) raises TypeError
ProtonVersionCompare(a, b) == "TypeError"

\* self.available_version = None
NoVersion == [name |-> << >>, url |-> "None"]

\* a local variable of get_latest before and after its first assignment
Unbound == [bound |-> FALSE, val |-> << >>]
Bound(v) == [bound |-> TRUE, val |-> v]

\* get_latest: the for loop over latest.get("assets"); it has no break, name
\* is assigned for every asset and url for every asset with the marker
RECURSIVE get_latest_loop(_, _, _)
get_latest_loop(assets, name, url) ==
  IF assets = << >> THEN [name |-> name, url |-> url]
  ELSE LET asset == Head(assets)
           n == asset.name
       IN get_latest_loop(Tail(assets), Bound(n),
            IF Contains(n, TarMarker)
              THEN Bound(asset.browser_download_url)
              ELSE url)

\* get_latest after the request: the exception raised, or the candidate
get_latest(assets) ==
  LET l == get_latest_loop(assets, Unbound, Unbound)
  IN IF ~l.url.bound
       THEN [error |-> "UnboundLocalError", version |-> NoVersion]
     ELSE IF l.url.val = ""
       THEN [error |-> "Failed to find tarball url", version |-> NoVersion]
     ELSE [error |-> "",
           version |-> ProtonVersion(Strip(l.name.val, Range(TarGzSuffix)),
                                     l.url.val)]

\* get_local_versions: the filter and map over one listing of the directory
get_local_versions(listing) ==
  LET keep == SelectSeq(listing, LAMBDA e : Contains(Lower(e.name), FamilyMarker))
  IN [i \in 1..Len(keep) |-> ProtonVersion(keep[i].name, "")]

\* the name without its last hyphen-separated tag: Proton-9.0 for Proton-9.0-3
RECURSIVE WithoutLastTag(_)
WithoutLastTag(name) ==
  IF name = << >> THEN << >>
  ELSE IF name[Len(name)] = "-" THEN SubSeq(name, 1, Len(name) - 1)
  ELSE WithoutLastTag(SubSeq(name, 1, Len(name) - 1))

\* check_update_available as it would be if it matched the version number
\* instead of the whole name
RECURSIVE check_update_available_by_number(_, _)
check_update_available_by_number(installed, available) ==
  IF installed = << >> THEN TRUE
  ELSE IF WithoutLastTag(Head(installed).name) = WithoutLastTag(available.name)
    THEN FALSE
  ELSE check_update_available_by_number(Tail(installed), available)

\* check_update_available: the loop with its early return
RECURSIVE check_update_available(_, _)
check_update_available(installed, available) ==
  IF installed = << >> THEN TRUE
  ELSE IF Head(installed).name = available.name THEN FALSE
  ELSE check_update_available(Tail(installed), available)

\* safe_extract: the loop over tar.getmembers() that raises on the first
\* member that is_within_directory rejects; TRUE when no member is rejected
RECURSIVE safe_extract_check(_, _)
safe_extract_check(members, path) ==
  IF members = << >> THEN TRUE
  ELSE IF ~is_within_directory(path, PathJoin(path, Head(members).name)) THEN FALSE
  ELSE safe_extract_check(Tail(members), path)

\* where the operating system puts a file created at p: below directory
\* dir (as a list of path components relative to it), or elsewhere
RelativeTo(dir, p) ==
  LET d == SplitSlash(AbsPath(dir))
      t == SplitSlash(AbsPath(p))
  IN IF Len(t) >= Len(d) /\ SubSeq(t, 1, Len(d)) = d
       THEN [inside |-> TRUE, rel |-> SubSeq(t, Len(d) + 1, Len(t))]
       ELSE [inside |-> FALSE, rel |-> << >>]

\* tar.extract of one member into path: fs is the pair of the entries of
\* the installation directory and the paths written outside of it
ExtractMember(fs, member, path) ==
  LET target == PathJoin(path, member.name)
      where == RelativeTo(path, target)
  IN IF ~where.inside
       THEN [fs EXCEPT !.outside = @ \cup {AbsPath(target)}]
     ELSE IF where.rel = << >> THEN fs
     ELSE IF \E e \in fs.compat : e.name = where.rel[1] THEN fs
     ELSE [fs EXCEPT !.compat = @ \cup
             {Entry(where.rel[1],
                    IF Len(where.rel) > 1 \/ member.isdir THEN "dir" ELSE "file")}]

\* tar.extractall stopped after the first k members
RECURSIVE ExtractAll(_, _, _, _)
ExtractAll(fs, members, k, path) ==
  IF k = 0 \/ members = << >> THEN fs
  ELSE ExtractAll(ExtractMember(fs, Head(members), path), Tail(members), k - 1, path)

\* cleanup_old_versions line 107: f == self.available_version compares a
\* str with a ProtonVersion object, which defines no __eq__: never equal
EntryEqualsVersion(f, version) == FALSE

\* cleanup_old_versions: the loop over one listing; os.remove raises on a
\* directory and the exception ends the loop
RECURSIVE cleanup_old_versions(_, _, _)
cleanup_old_versions(listing, entries, version) ==
  IF listing = << >> THEN [compat |-> entries, error |-> ""]
  ELSE LET f == Head(listing)
       IN IF EntryEqualsVersion(f.name, version)
            THEN cleanup_old_versions(Tail(listing), entries, version)
          ELSE IF f.kind = "dir"
            THEN [compat |-> entries, error |-> "IsADirectoryError"]
          ELSE cleanup_old_versions(Tail(listing), entries \ {f}, version)

(***************************************************************************)
(* The state: the file system, the Updater object, and the position of the *)
(* process in main and do_update.                                          *)
(***************************************************************************)
VARIABLES
  pc,                  \* position of the process
  run,                 \* number of the run of the program
  args_cleanup,        \* args.cleanup
  steamdir_exists,     \* os.path.isdir(args.steamdir)
  compat,              \* the entries of the installation directory
  outside,             \* paths written outside the installation directory
  staging,             \* the files of args.tmpdir: name, chunks written, data
  installed_versions,  \* self.installed_versions
  available_version,   \* self.available_version
  update_needed,       \* what check_update_available returned in do_update
  stdout,              \* the reports printed
  exit_status,         \* -1 while running, then the status of the process
  error,               \* the exception that ended the run, "" if none
  hist                 \* what happened in this run

vars == <<pc, run, args_cleanup, steamdir_exists, compat, outside, staging,
          installed_versions, available_version, update_needed, stdout,
          exit_status, error, hist>>

fsvars == <<steamdir_exists, compat, outside, staging>>
objvars == <<installed_versions, available_version, update_needed>>

NoHist ==
  [answer |-> "none", fetch |-> "none", unpack |-> "none", rollback |-> FALSE,
   cleanup_ran |-> FALSE, archive_gets |-> 0, staged_at_fetch |-> FALSE,
   compat_at_start |-> {}, compat_at_prompt |-> {}, staging_at_prompt |-> {},
   compat_at_cleanup |-> {}, assets |-> << >>, feed |-> "none",
   content_length |-> "none"]

InitialEntries ==
  {S \in SUBSET {Entry(n, k) : n \in {N93, Boxtron}, k \in Kinds} :
     \A e1, e2 \in S : e1.name = e2.name => e1 = e2}

Init ==
  /\ pc = "start"
  /\ run = 1
  /\ args_cleanup \in BOOLEAN
  /\ steamdir_exists \in BOOLEAN
  /\ compat \in InitialEntries
  /\ ~steamdir_exists => compat = {}
  /\ outside = {}
  /\ staging = {}
  /\ installed_versions = << >>
  /\ available_version = NoVersion
  /\ update_needed = "unknown"
  /\ stdout = {}
  /\ exit_status = -1
  /\ error = ""
  /\ hist = [NoHist EXCEPT !.compat_at_start = compat]

\* an exception nobody catches: traceback, status 1
Raise(exc) ==
  /\ pc' = "done"
  /\ exit_status' = 1
  /\ error' = exc

\* a normal return from main
Finish ==
  /\ pc' = "done"
  /\ exit_status' = 0
  /\ error' = ""

\* the staged file of the candidate: f"{tmpdir}/{version.name}"
Staged(name) == {f \in staging : f.name = name}
StagedComplete(name) == \E f \in Staged(name) : f.size = ArchiveChunks

\* main, lines 141-143
MainMkdir ==
  /\ pc = "start"
  /\ steamdir_exists' = TRUE
  /\ pc' = "get_latest"
  /\ UNCHANGED <<run, args_cleanup, compat, outside, staging, objvars, stdout,
                 exit_status, error, hist>>

\* Updater.__init__ line 26: get_latest
GetLatest ==
  /\ pc = "get_latest"
  /\ \/ /\ Raise("ConnectionError")
        /\ hist' = [hist EXCEPT !.feed = "unreachable"]
        /\ UNCHANGED available_version
     \/ \E assets \in Feeds :
          LET r == get_latest(assets)
          IN /\ hist' = [hist EXCEPT !.assets = assets, !.feed = "received"]
             /\ IF r.error # ""
                  THEN Raise(r.error) /\ UNCHANGED available_version
                  ELSE /\ available_version' = r.version
                       /\ pc' = "get_local_versions"
                       /\ UNCHANGED <<exit_status, error>>
  /\ UNCHANGED <<run, args_cleanup, fsvars, installed_versions, update_needed,
                 stdout>>

\* Updater.__init__ line 27: get_local_versions
GetLocalVersions ==
  /\ pc = "get_local_versions"
  /\ \E listing \in Listings(compat) :
       installed_versions' =
         IF compat # {} THEN get_local_versions(listing) ELSE installed_versions
  /\ pc' = "do_update"
  /\ UNCHANGED <<run, args_cleanup, fsvars, available_version, update_needed,
                 stdout, exit_status, error, hist>>

\* do_update up to the prompt as it would be if check_update_available
\* consumed the list it walks (popping the entries of installed_versions)
DoUpdateCheckConsuming ==
  /\ pc = "do_update"
  /\ LET b == check_update_available(installed_versions, available_version)
     IN /\ update_needed' = IF b THEN "True" ELSE "False"
        /\ installed_versions' = << >>
        /\ IF ~b
             THEN /\ stdout' = stdout \cup {"No new versions available"}
                  /\ pc' = "returned"
                  /\ UNCHANGED hist
             ELSE /\ pc' = "prompt"
                  /\ hist' = [hist EXCEPT !.compat_at_prompt = compat,
                                          !.staging_at_prompt = staging]
                  /\ UNCHANGED stdout
  /\ UNCHANGED <<run, args_cleanup, fsvars, available_version, exit_status,
                 error>>

\* do_update, lines 112-120: the decision, up to the prompt
DoUpdateCheck ==
  /\ pc = "do_update"
  /\ LET b == check_update_available(installed_versions, available_version)
     IN /\ update_needed' = IF b THEN "True" ELSE "False"
        /\ IF ~b
             THEN /\ stdout' = stdout \cup {"No new versions available"}
                  /\ pc' = "returned"
                  /\ UNCHANGED hist
             ELSE /\ pc' = "prompt"
                  /\ hist' = [hist EXCEPT !.compat_at_prompt = compat,
                                          !.staging_at_prompt = staging]
                  /\ UNCHANGED stdout
  /\ UNCHANGED <<run, args_cleanup, fsvars, installed_versions,
                 available_version, exit_status, error>>

\* do_update, lines 121-123: the answer to "Perform update? [Y/n]"
Prompt ==
  /\ pc = "prompt"
  /\ \E yes_no \in Answers :
       /\ hist' = [hist EXCEPT !.answer =
                     IF LowerAnswer(yes_no) \notin {"y", ""} THEN "decline" ELSE "accept"]
       /\ pc' = IF LowerAnswer(yes_no) \notin {"y", ""} THEN "returned" ELSE "fetch"
  /\ UNCHANGED <<run, args_cleanup, fsvars, objvars, stdout, exit_status, error>>

\* fetch_update, lines 60-70: the request, the length check, open(path, "wb")
FetchStart ==
  /\ pc = "fetch"
  /\ LET name == available_version.name
         h == [hist EXCEPT !.archive_gets = @ + 1,
                           !.staged_at_fetch = StagedComplete(name)]
     IN \/ /\ Raise("ConnectionError")
           /\ hist' = [h EXCEPT !.fetch = "failed"]
           /\ UNCHANGED staging
        \/ /\ Raise("Could not get conent size")
           /\ hist' = [h EXCEPT !.fetch = "failed", !.content_length = "absent"]
           /\ UNCHANGED staging
        \/ /\ staging' = (staging \ Staged(name)) \cup
                             {[name |-> name, size |-> 0, data |-> CorruptArchive]}
           /\ hist' = [h EXCEPT !.fetch = "started", !.content_length = "present"]
           /\ pc' = "download"
           /\ UNCHANGED <<exit_status, error>>
  /\ UNCHANGED <<run, args_cleanup, steamdir_exists, compat, outside, objvars,
                 stdout>>

\* fetch_update, lines 71-77: one chunk of r.iter_content written; a file
\* short of its last chunk is a truncated stream, no tar container, and
\* with the last chunk it is whatever the server sent
FetchChunk ==
  /\ pc = "download"
  /\ \E f \in Staged(available_version.name) :
       /\ f.size < ArchiveChunks
       /\ \E data \in Served(available_version.url) :
            staging' = (staging \ {f}) \cup
              {[f EXCEPT !.size = @ + 1,
                         !.data = IF f.size + 1 = ArchiveChunks
                                    THEN data ELSE CorruptArchive]}
  /\ UNCHANGED <<pc, run, args_cleanup, steamdir_exists, compat, outside,
                 objvars, stdout, exit_status, error, hist>>

\* fetch_update, lines 79-80: the body is read to its end, the file closed
FetchDone ==
  /\ pc = "download"
  /\ StagedComplete(available_version.name)
  /\ hist' = [hist EXCEPT !.fetch = "ok"]
  /\ pc' = "unpack"
  /\ UNCHANGED <<run, args_cleanup, fsvars, objvars, stdout, exit_status, error>>

\* r.iter_content raises before the body is complete
TransportFailure ==
  /\ pc = "download"
  /\ ~StagedComplete(available_version.name)
  /\ Raise("ChunkedEncodingError")
  /\ hist' = [hist EXCEPT !.fetch = "cut"]
  /\ UNCHANGED <<run, args_cleanup, fsvars, objvars, stdout>>

\* lines 178-181: KeyboardInterrupt at the prompt or during the download
KeyboardInterrupt ==
  /\ pc \in {"prompt", "download"}
  /\ pc' = "done"
  /\ exit_status' = 0
  /\ error' = "KeyboardInterrupt"
  /\ stdout' = stdout \cup {"Aborted"}
  /\ hist' = [hist EXCEPT !.fetch = IF pc = "download" THEN "cut" ELSE @]
  /\ UNCHANGED <<run, args_cleanup, fsvars, objvars>>

\* the exceptions tar.extractall may stop with; only tarfile.ExtractError
\* is caught by do_update
ExtractExceptions == {"ExtractError", "OSError"}

\* do_update, lines 127-137, with unpack_update: tarfile.open, the check of
\* safe_extract, extractall (which may stop after any number of members),
\* the except branch and the final report
UnpackUpdate ==
  /\ pc = "unpack"
  /\ \E tmp_file \in Staged(available_version.name) :
       LET tarball == tmp_file.data
           name == available_version.name
           failed == [hist EXCEPT !.unpack = "failed"]
       IN IF ~tarball.readable
            THEN /\ Raise("ReadError")
                 /\ hist' = failed
                 /\ UNCHANGED <<compat, outside, staging, stdout>>
          ELSE IF ~safe_extract_check(tarball.members, SteamDir)
            THEN /\ Raise("Attempted Path Traversal in Tar File")
                 /\ hist' = failed
                 /\ UNCHANGED <<compat, outside, staging, stdout>>
          ELSE \E k \in 0..Len(tarball.members), exc \in ExtractExceptions :
                 LET fs == ExtractAll([compat |-> compat, outside |-> outside],
                                      tarball.members, k, SteamDir)
                 IN /\ outside' = fs.outside
                    /\ IF k = Len(tarball.members)
                         THEN /\ compat' = fs.compat
                              /\ hist' = [hist EXCEPT !.unpack = "ok"]
                              /\ stdout' = stdout \cup {"Done"}
                              /\ pc' = "returned"
                              /\ UNCHANGED <<staging, exit_status, error>>
                       ELSE IF exc # "ExtractError"
                         THEN /\ compat' = fs.compat
                              /\ Raise(exc)
                              /\ hist' = failed
                              /\ UNCHANGED <<staging, stdout>>
                       ELSE IF Entry(name, "dir") \notin fs.compat
                         THEN \* shutil.rmtree raises, os.remove is not reached
                              /\ compat' = fs.compat
                              /\ Raise(IF Entry(name, "file") \in fs.compat
                                         THEN "NotADirectoryError"
                                         ELSE "FileNotFoundError")
                              /\ hist' = [failed EXCEPT !.rollback = TRUE]
                              /\ UNCHANGED <<staging, stdout>>
                       ELSE /\ compat' = fs.compat \ {Entry(name, "dir")}
                            /\ staging' = staging \ {tmp_file}
                            /\ hist' = [failed EXCEPT !.rollback = TRUE]
                            /\ stdout' = stdout \cup {"Done"}
                            /\ pc' = "returned"
                            /\ UNCHANGED <<exit_status, error>>
  /\ UNCHANGED <<run, args_cleanup, steamdir_exists, objvars>>

\* main, lines 147-148 with args.cleanup set: cleanup_old_versions
MainCleanup ==
  /\ pc = "returned"
  /\ args_cleanup
  /\ \E listing \in Listings(compat) :
       LET r == cleanup_old_versions(listing, compat, available_version)
       IN /\ compat' = r.compat
          /\ IF r.error # "" THEN Raise(r.error) ELSE Finish
  /\ hist' = [hist EXCEPT !.cleanup_ran = TRUE, !.compat_at_cleanup = compat]
  /\ UNCHANGED <<run, args_cleanup, steamdir_exists, outside, staging, objvars,
                 stdout>>

\* main, line 147 with args.cleanup not set: main returns
MainReturn ==
  /\ pc = "returned"
  /\ ~args_cleanup
  /\ Finish
  /\ UNCHANGED <<run, args_cleanup, fsvars, objvars, stdout, hist>>

\* the program is started again on the file system the last run left
NewRun ==
  /\ pc = "done"
  /\ run < MaxRuns
  /\ run' = run + 1
  /\ pc' = "start"
  /\ args_cleanup' \in BOOLEAN
  /\ installed_versions' = << >>
  /\ available_version' = NoVersion
  /\ update_needed' = "unknown"
  /\ stdout' = {}
  /\ exit_status' = -1
  /\ error' = ""
  /\ hist' = [NoHist EXCEPT !.compat_at_start = compat]
  /\ UNCHANGED fsvars

Next ==
  \/ MainMkdir
  \/ GetLatest
  \/ GetLocalVersions
  \/ DoUpdateCheck
  \/ Prompt
  \/ FetchStart
  \/ FetchChunk
  \/ FetchDone
  \/ TransportFailure
  \/ KeyboardInterrupt
  \/ UnpackUpdate
  \/ MainCleanup
  \/ MainReturn
  \/ NewRun

Spec == Init /\ [][Next]_vars

(***************************************************************************)
(* The claims.                                                             *)
(***************************************************************************)
InstalledNames == {installed_versions[i].name : i \in 1..Len(installed_versions)}

\* C1: check_update_available reports "update needed" if and only if no
\* installed entry has a name equal, as a string, to the candidate's name;
\* with Proton-9.0-3 installed, Proton-9.0-20 not installed and
\* Proton-9.0-20 the candidate, it reports "update needed".
C1_UpdateIffNoEqualName ==
  update_needed # "unknown" =>
    /\ (update_needed = "True") <=> (available_version.name \notin InstalledNames)
    /\ (/\ N93 \in InstalledNames
        /\ N920 \notin InstalledNames
        /\ available_version.name = N920) => update_needed = "True"

C1_Witness ==
  /\ update_needed = "True"
  /\ N93 \in InstalledNames
  /\ available_version.name = N920

\* the archive that unpack_update is about to open has an entry whose path
\* resolves outside the installation directory
ArchiveEscapes ==
  \E f \in Staged(available_version.name) :
    /\ f.data.readable
    /\ \E i \in 1..Len(f.data.members) :
         ~RelativeTo(SteamDir, PathJoin(SteamDir, f.data.members[i].name)).inside

\* C2: if any entry of the archive resolves outside the installation
\* directory (parent-directory segments or an absolute path), unpack_update
\* aborts and no file of the archive is written anywhere.
C2_TraversalWritesNothing ==
  [][(pc = "unpack" /\ ArchiveEscapes) =>
       /\ hist'.unpack = "failed"
       /\ compat' = compat
       /\ outside' = outside]_vars

CandidateEntries == {e \in compat : e.name = available_version.name}

\* C3: whenever extraction fails in do_update, the run ends with no
\* target_dir/<candidate.name> directory and with the staged archive removed.
C3_FailedExtractionRolledBack ==
  (pc = "done" /\ hist.unpack = "failed") =>
    /\ CandidateEntries = {}
    /\ Staged(available_version.name) = {}

\* C4: cleanup_old_versions is executed only in a run where the cleanup
\* option was given and the install of that run completed successfully.
C4_CleanupOnlyAfterInstall ==
  hist.cleanup_ran => (args_cleanup /\ hist.unpack = "ok")

\* C5: cleanup_old_versions removes every entry whose name differs from the
\* name of the kept release and leaves the entry with that name untouched.
C5_CleanupKeepsOnlyCandidate ==
  hist.cleanup_ran =>
    compat = {e \in hist.compat_at_cleanup : e.name = available_version.name}

\* C6: if the user declines at the prompt, the run ends with the
\* installation directory and the staging directory as they were when the
\* prompt was shown, and no archive download was started.
C6_DeclineHasNoEffect ==
  (pc = "done" /\ hist.answer = "decline") =>
    /\ compat = hist.compat_at_prompt
    /\ staging = hist.staging_at_prompt
    /\ hist.archive_gets = 0

\* C7: if the download is cut short by a transport failure or an
\* interruption at a chunk boundary, no partial file is left at the
\* canonical staging path tmpdir/<candidate.name>.
C7_NoPartialStagedFile ==
  (pc = "done" /\ hist.fetch = "cut") =>
    \A f \in Staged(available_version.name) : f.size = ArchiveChunks

\* C8: if a complete archive of the candidate is in the staging directory
\* when the fetch stage starts, no network request for the archive is made.
C8_StagedArchiveReused ==
  hist.staged_at_fetch => hist.archive_gets = 0

\* the first asset of the feed whose name contains the marker
HasTarAsset(assets) == \E i \in 1..Len(assets) : Contains(assets[i].name, TarMarker)
FirstTarAsset(assets) ==
  assets[CHOOSE i \in 1..Len(assets) :
           /\ Contains(assets[i].name, TarMarker)
           /\ \A j \in 1..(i - 1) : ~Contains(assets[j].name, TarMarker)]

\* C9: the candidate's download url and the candidate's name both come from
\* the first asset whose name contains the compressed-tar marker.
C9_CandidateFromFirstTarAsset ==
  available_version # NoVersion =>
    /\ HasTarAsset(hist.assets)
    /\ available_version.url = FirstTarAsset(hist.assets).browser_download_url
    /\ available_version.name =
         Strip(FirstTarAsset(hist.assets).name, Range(TarGzSuffix))

\* the release an archive asset is named after: the asset name without its
\* ".tar.gz" suffix
ReleaseOf(asset) ==
  IF Len(asset.name) >= Len(TarGzSuffix)
       /\ SubSeq(asset.name, Len(asset.name) - Len(TarGzSuffix) + 1, Len(asset.name))
            = TarGzSuffix
    THEN SubSeq(asset.name, 1, Len(asset.name) - Len(TarGzSuffix))
    ELSE asset.name

\* the run installed, after confirmation, the archive with the single
\* top-level directory named after the release, into an installation
\* directory that did not contain the candidate
InstalledRelease ==
  /\ pc = "done"
  /\ hist.answer = "accept"
  /\ hist.fetch = "ok"
  /\ hist.unpack = "ok"
  /\ \A e \in hist.compat_at_start : e.name # available_version.name
  /\ HasTarAsset(hist.assets)
  /\ \E f \in Staged(available_version.name) :
       f.data = GoodArchive(ReleaseOf(FirstTarAsset(hist.assets)))

\* C10: after a confirmed run whose download and extraction succeeded, a
\* rescan of the installation directory contains an entry with the
\* candidate's name, and check_update_available reports "no update".
C10_InstalledCandidateIsFound ==
  InstalledRelease =>
    \A listing \in Listings(compat) :
      /\ \E i \in 1..Len(get_local_versions(listing)) :
           get_local_versions(listing)[i].name = available_version.name
      /\ ~check_update_available(get_local_versions(listing), available_version)

\* the run found no update, or the user declined at the prompt
NoUpdateOrDeclined ==
  \/ update_needed = "False"
  \/ hist.answer = "decline"

\* the feed request, the archive download or the extraction failed (an
\* interruption by the user is not counted as a failure)
StageFailed ==
  /\ error # "KeyboardInterrupt"
  /\ \/ hist.feed = "unreachable"
     \/ hist.fetch \in {"failed", "cut"}
     \/ hist.unpack = "failed"

\* C11: the process exits with status 0 when no update is available or the
\* user declines, and with a non-zero status in every run where the feed
\* request, the archive download or the extraction fails.
C11_ExitStatus ==
  pc = "done" =>
    /\ NoUpdateOrDeclined => exit_status = 0
    /\ StageFailed => exit_status # 0

\* C12: when the response to the archive download carries no content
\* length, fetch_update does not fail on that account: no exception ends
\* the run at the request and the body is streamed to the staging path.
C12_NoContentLengthStillFetches ==
  hist.content_length = "absent" =>
    /\ hist.fetch # "failed"
    /\ Staged(available_version.name) # {}

\* C13: a failure to remove an entry during cleanup_old_versions is
\* non-fatal: the run does not end with an unhandled error, every other
\* superseded entry that can be removed is removed, and the entry of the
\* newly installed release stays in place.
C13_CleanupFailureNonFatal ==
  hist.cleanup_ran =>
    /\ error = ""
    /\ exit_status = 0
    /\ \A e \in hist.compat_at_cleanup :
         (e.name # available_version.name /\ e.kind = "file") => e \notin compat
    /\ \A e \in hist.compat_at_cleanup :
         e.name = available_version.name => e \in compat

\* C14: check_update_available is a pure and total decision: the call in
\* do_update raises nothing, leaves installed_versions, available_version
\* and the file system as they were, and a second call on the state it
\* leaves returns the answer the first call returned.
C14_CheckIsPure ==
  [][pc = "do_update" =>
       /\ installed_versions' = installed_versions
       /\ available_version' = available_version
       /\ UNCHANGED fsvars
       /\ error' = ""
       /\ exit_status' = -1
       /\ update_needed' =
            (IF check_update_available(installed_versions', available_version')
               THEN "True" ELSE "False")]_vars

C14_Witness ==
  /\ update_needed = "False"
  /\ Len(installed_versions) > 1
  /\ pc = "returned"

\* C15: when no asset of the feed carries the compressed-tar marker (an
\* empty asset list included), get_latest fails with the dedicated error
\* "Failed to find tarball url" and creates no candidate.
C15_NoArchiveAssetError ==
  (hist.feed = "received" /\ ~HasTarAsset(hist.assets)) =>
    /\ error = "Failed to find tarball url"
    /\ available_version = NoVersion

Orderings == {"less", "equal", "greater"}
N90 == Proton \o <<"-", "9", ".", "0">>
N900 == Proton \o <<"-", "9", ".", "0", ".", "0">>

\* C16: the release model compares two releases by their dotted numeric
\* component: comparing an installed release with the candidate returns
\* less, equal or greater, and 9.0 compares equal to 9.0.0.
C16_VersionComparison ==
  available_version # NoVersion =>
    /\ \A i \in 1..Len(installed_versions) :
         ProtonVersionCompare(installed_versions[i], available_version) \in Orderings
    /\ ProtonVersionCompare(ProtonVersion(N90, ""), ProtonVersion(N900, "")) = "equal"

C18_WithinDirectoryIsContainment ==
  \A f \in staging :
    \A i \in 1..Len(f.data.members) :
      LET target == PathJoin(SteamDir, f.data.members[i].name)
      IN is_within_directory(SteamDir, target) <=> RelativeTo(SteamDir, target).inside

\* the asset the candidate's name is computed from is named N + ".tar.gz"
NameFromArchiveAsset ==
  /\ available_version # NoVersion
  /\ ReleaseOf(hist.assets[Len(hist.assets)]) # hist.assets[Len(hist.assets)].name

\* C19: for an archive asset named N + ".tar.gz" the candidate name
\* computed by get_latest is exactly N.
C19_NameIsAssetWithoutSuffix ==
  NameFromArchiveAsset =>
    available_version.name = ReleaseOf(hist.assets[Len(hist.assets)])

====
